---- MODULE Spec2Model ----
(***************************************************************************)
(* SehatSaarthi: a WhatsApp chatbot.                                       *)
(*                                                                         *)
(*   src/app.py                      the script variant: GET /webhook      *)
(*                                   verifier, POST /webhook with the      *)
(*                                   user_state session mapping            *)
(*   src/app/utils/whatsapp_utils.py the packaged pipeline:                *)
(*                                   process_whatsapp_message, send_message*)
(*                                   is_valid_whatsapp_message,            *)
(*                                   process_text_for_whatsapp, ...        *)
(*                                                                         *)
(* Text is a sequence of one-character strings.  The characters "[" and    *)
(* "]" stand for the lenticular brackets U+3010 and U+3011 of the source.  *)
(*                                                                         *)
(* Specifications:                                                         *)
(*   Spec        process_whatsapp_message, one statement group per step    *)
(*   SpecScript  src/app.py: verify and webhook                            *)
(*   SpecConcurrent  src/app.py: webhook requests that may overlap          *)
(*   SpecFormat  process_text_for_whatsapp applied repeatedly              *)
(*   SpecValid   is_valid_whatsapp_message                                 *)
(*   SpecSend    send_message                                              *)
(***************************************************************************)
EXTENDS Integers, Sequences, FiniteSets, TLC

VARIABLES
    \* ---- process_text_for_whatsapp (SpecFormat)
    text,           \* the input text
    formatted,      \* <<f(text), f(f(text)), ...>>
    \* ---- is_valid_whatsapp_message (SpecValid)
    vbody,          \* the payload handed to the validator
    vbodyAfter,     \* the payload after the call
    vresult,        \* "none" before the call, then TRUE / FALSE
    \* ---- send_message (SpecSend)
    spc,            \* "idle", "post", "return"
    sdata,          \* the payload being sent
    sposts,         \* POST attempts made by the current call
    soutcome,       \* what requests.post / raise_for_status did
    sret,           \* the value the call returned
    \* ---- src/app.py (SpecScript)
    user_state,     \* the session mapping {wa_id: "awaiting_name"}
    hpc,            \* per request handler: "idle", "check", "send", "update"
    hreq,           \* per handler: the messages of its request not yet handled
    hbranch,        \* per handler: the branch taken for the current message
    hsent,          \* per handler: the message handed to send_message
    hresp,          \* per handler: the response of its last request
    verified,       \* the last GET /webhook request and its response
    threaded,       \* whether the server handles requests concurrently
    \* ---- process_whatsapp_message (Spec)
    pc,             \* the statement group about to run
    payload,        \* the webhook payload passed in (the parameter body)
    gemini_key,     \* whether GEMINI_API_KEY is configured
    loc,            \* the local variables
    calls,          \* the calls made so far, in order
    result          \* the value returned

fmtVars    == <<text, formatted>>
validVars  == <<vbody, vbodyAfter, vresult>>
sendVars   == <<spc, sdata, sposts, soutcome, sret>>
scriptVars == <<user_state, hpc, hreq, hbranch, hsent, hresp, verified,
               threaded>>
pipeVars   == <<pc, payload, gemini_key, loc, calls, result>>
vars       == <<fmtVars, validVars, sendVars, scriptVars, pipeVars>>

notFormat == <<validVars, sendVars, scriptVars, pipeVars>>
notValid  == <<fmtVars, sendVars, scriptVars, pipeVars>>
notSend   == <<fmtVars, validVars, scriptVars, pipeVars>>
notScript == <<fmtVars, validVars, sendVars, pipeVars>>
notPipe   == <<fmtVars, validVars, sendVars, scriptVars>>

None == "None"

(***************************************************************************)
(* Bounds                                                                  *)
(***************************************************************************)
MaxTextLen == 3             \* free-form formatter inputs: every text up to this length
MaxTokens == 7              \* formatter inputs built from annotation tokens
MaxApplications == 2        \* how often the formatter is re-applied to its output
MaxBodyLen == 3             \* inbound message bodies: every text up to this length

(***************************************************************************)
(* Text helpers: the built-in str methods the source calls                 *)
(***************************************************************************)
Whitespace == {" ", "\n"}

SeqsUpTo(S, n) == UNION {[1..k -> S] : k \in 0..n}

RECURSIVE LStrip(_)
LStrip(s) ==
    IF s = <<>> THEN <<>>
    ELSE IF Head(s) \in Whitespace THEN LStrip(Tail(s)) ELSE s

RECURSIVE RStrip(_)
RStrip(s) ==
    IF s = <<>> THEN <<>>
    ELSE IF s[Len(s)] \in Whitespace THEN RStrip(SubSeq(s, 1, Len(s) - 1)) ELSE s

\* str.strip(): leading and trailing whitespace removed
Strip(s) == RStrip(LStrip(s))

LowerChar(c) ==
    CASE c = "H" -> "h"
      [] c = "I" -> "i"
      [] c = "X" -> "x"
      [] OTHER -> c

\* str.lower()
Lower(s) == [i \in 1..Len(s) |-> LowerChar(s[i])]

RECURSIVE Flatten(_)
Flatten(ss) == IF ss = <<>> THEN <<>> ELSE Head(ss) \o Flatten(Tail(ss))

(***************************************************************************)
(* process_text_for_whatsapp                                               *)
(***************************************************************************)
\* Least j in from..Len(s) with s[j] \in stop, or 0
RECURSIVE FindFirst(_, _, _)
FindFirst(s, from, stop) ==
    IF from > Len(s) THEN 0
    ELSE IF s[from] \in stop THEN from
    ELSE FindFirst(s, from + 1, stop)

\* re.sub(r"\[.*?\]", "", text), scanning from position i: the leftmost
\* opening bracket is matched with the nearest closing one on its line
\* ("." does not match a newline); every match is removed.
RECURSIVE RemoveBracketsFrom(_, _)
RemoveBracketsFrom(s, i) ==
    IF i > Len(s) THEN <<>>
    ELSE IF s[i] = "["
         THEN LET j == FindFirst(s, i + 1, {"]", "\n"})
              IN  IF j # 0 /\ s[j] = "]"
                  THEN RemoveBracketsFrom(s, j + 1)
                  ELSE <<s[i]>> \o RemoveBracketsFrom(s, i + 1)
         ELSE <<s[i]>> \o RemoveBracketsFrom(s, i + 1)

\* the same with count=1: only the first match is removed
RECURSIVE RemoveFirstBracketFrom(_, _)
RemoveFirstBracketFrom(s, i) ==
    IF i > Len(s) THEN <<>>
    ELSE IF s[i] = "["
         THEN LET j == FindFirst(s, i + 1, {"]", "\n"})
              IN  IF j # 0 /\ s[j] = "]"
                  THEN SubSeq(s, j + 1, Len(s))
                  ELSE <<s[i]>> \o RemoveFirstBracketFrom(s, i + 1)
         ELSE <<s[i]>> \o RemoveFirstBracketFrom(s, i + 1)

RemoveBracketsOnce(s) == RemoveFirstBracketFrom(s, 1)

RemoveBrackets(s) == RemoveBracketsFrom(s, 1)

\* Least k >= from with "**" at k and no newline in from..k-1, or 0
RECURSIVE FindClosingStars(_, _)
FindClosingStars(s, from) ==
    IF from + 1 > Len(s) THEN 0
    ELSE IF s[from] = "*" /\ s[from + 1] = "*" THEN from
    ELSE IF s[from] = "\n" THEN 0
    ELSE FindClosingStars(s, from + 1)

\* re.sub(r"\*\*(.*?)\*\*", r"*\1*", text), scanning from position i
RECURSIVE ReplaceBoldFrom(_, _)
ReplaceBoldFrom(s, i) ==
    IF i > Len(s) THEN <<>>
    ELSE IF i + 1 <= Len(s) /\ s[i] = "*" /\ s[i + 1] = "*"
         THEN LET k == FindClosingStars(s, i + 2)
              IN  IF k # 0
                  THEN <<"*">> \o SubSeq(s, i + 2, k - 1) \o <<"*">>
                           \o ReplaceBoldFrom(s, k + 2)
                  ELSE <<s[i]>> \o ReplaceBoldFrom(s, i + 1)
         ELSE <<s[i]>> \o ReplaceBoldFrom(s, i + 1)

ReplaceBold(s) == ReplaceBoldFrom(s, 1)

process_text_for_whatsapp(s) == ReplaceBold(Strip(RemoveBrackets(s)))

FormatAlphabet == {"*", "[", "]", "a", " ", "\n"}

\* annotation-separated asterisks: texts in which brackets sit between stars
FormatTokens == {<<"*">>, <<"*", "[", "]">>, <<"a">>}

FormatInputs ==
    SeqsUpTo(FormatAlphabet, MaxTextLen)
        \cup {Flatten(ts) : ts \in SeqsUpTo(FormatTokens, MaxTokens)}

\* the caller formats a text, or formats the previous result again
Format ==
    /\ Len(formatted) < MaxApplications
    /\ formatted' = Append(formatted,
           process_text_for_whatsapp(
               IF formatted = <<>> THEN text ELSE formatted[Len(formatted)]))
    /\ UNCHANGED <<text, notFormat>>

(***************************************************************************)
(* Webhook payloads.  A JSON object is a function from its keys; a key     *)
(* that is absent is not in its DOMAIN.  The empty object and the empty    *)
(* list are both <<>>, and both are falsy in Python.                       *)
(***************************************************************************)
Has(d, k) == k \in DOMAIN d

\* bool(d.get(k)) for a key holding a list or an object
TruthyColl(d, k) == Has(d, k) /\ d[k] # <<>>

\* bool(d.get(k)) for a key holding a string
TruthyStr(d, k) == Has(d, k) /\ d[k] # ""

Senders == {"w1", "w2"}

Contact == [wa_id |-> "w1", profile |-> [name |-> "Asha"]]

ShapeMessages ==
    {[from |-> "w1", type |-> "text", text |-> [body |-> <<"H", "i">>]],
     [from |-> "w1", type |-> "audio", audio |-> [id |-> "m1"]],
     [from |-> "w1", type |-> "image"],
     <<>>}

\* the "value" of a change: absent (None), empty, a status callback, or
\* one with a messages list
ShapeValues ==
    {<<>>, [statuses |-> <<[status |-> "delivered"]>>]}
        \cup {[messages |-> ms] : ms \in {<<>>} \cup {<<m>> : m \in ShapeMessages}}
        \cup {[messages |-> ms, contacts |-> <<Contact>>] :
                  ms \in {<<>>} \cup {<<m>> : m \in ShapeMessages}}

ShapeChanges ==
    {[field |-> "messages"]}
        \cup {[field |-> "messages", value |-> v] : v \in ShapeValues}

ShapeEntries ==
    {[id |-> "e1"], [id |-> "e1", changes |-> <<>>]}
        \cup {[id |-> "e1", changes |-> <<c>>] : c \in ShapeChanges}

ShapeEntryLists == {<<>>} \cup {<<e>> : e \in ShapeEntries}

ShapeObjects == {"", "whatsapp_business_account", "page"}

\* payloads of the webhook schema's shape, with every part possibly
\* missing or empty
ShapeBodies ==
    {[entry |-> es] : es \in ShapeEntryLists}
        \cup {[object |-> o] : o \in ShapeObjects}
        \cup {[object |-> o, entry |-> es] : o \in ShapeObjects, es \in ShapeEntryLists}

(***************************************************************************)
(* is_valid_whatsapp_message                                               *)
(***************************************************************************)
\* the checks up to and including "changes"; then True
is_valid_upto_changes(body) ==
    IF ~TruthyStr(body, "object") THEN FALSE
    ELSE IF ~TruthyColl(body, "entry") THEN FALSE
    ELSE IF ~TruthyColl(body.entry[1], "changes") THEN FALSE
    ELSE TRUE

is_valid_whatsapp_message(body) ==
    IF ~TruthyStr(body, "object") THEN FALSE
    ELSE IF ~TruthyColl(body, "entry") THEN FALSE
    ELSE IF ~TruthyColl(body.entry[1], "changes") THEN FALSE
    ELSE IF ~TruthyColl(body.entry[1].changes[1], "value") THEN FALSE
    ELSE IF ~TruthyColl(body.entry[1].changes[1].value, "messages") THEN FALSE
    ELSE IF body.entry[1].changes[1].value.messages[1] = <<>> THEN FALSE
    ELSE TRUE

\* one call; the body is only read (get, indexing, json.dumps)
Validate ==
    /\ vresult = <<>>
    /\ vresult' = <<is_valid_whatsapp_message(vbody)>>
    /\ vbodyAfter' = vbody
    /\ UNCHANGED <<vbody, notValid>>

\* the next webhook event arrives
NextPayload ==
    /\ vresult # <<>>
    /\ vbody' \in ShapeBodies
    /\ vbodyAfter' = vbody'
    /\ vresult' = <<>>
    /\ UNCHANGED notValid

(***************************************************************************)
(* send_message                                                            *)
(***************************************************************************)
HttpStatuses == {200, 400, 401, 500}

\* what requests.post does: a response with a status, or an exception
PostOutcomes ==
    {[kind |-> "response", status |-> st] : st \in HttpStatuses}
        \cup {[kind |-> "Timeout", status |-> 0],
              [kind |-> "ConnectionError", status |-> 0]}

\* Response.raise_for_status(): HTTPError for a 4xx or 5xx status
RaisesHTTPError(o) == o.kind = "response" /\ o.status >= 400 /\ o.status < 600

\* the except clauses with RequestException tried first: every failure is a 500
send_message_generic_first(o) ==
    IF o.kind = "response" /\ ~RaisesHTTPError(o)
    THEN [kind |-> "response", status |-> o.status, raised |-> FALSE]
    ELSE [kind |-> "error", status |-> 500, raised |-> FALSE]

\* the value send_message returns for what the POST did
send_message(o) ==
    IF o.kind = "response" /\ ~RaisesHTTPError(o)
    THEN [kind |-> "response", status |-> o.status, raised |-> FALSE]
    ELSE IF o.kind = "Timeout"
    THEN [kind |-> "error", status |-> 408, raised |-> FALSE]
    ELSE IF o.kind = "response"
    THEN [kind |-> "error", status |-> o.status, raised |-> FALSE]
    ELSE [kind |-> "error", status |-> 500, raised |-> FALSE]

\* values of locals not yet bound
NoText == [kind |-> "unbound", origin |-> None, quoted |-> <<>>]
NoPdf == [kind |-> "unbound", title |-> <<>>, content |-> NoText]
NoMedia == [kind |-> "unbound", file_name |-> <<>>, data |-> NoPdf]

AckText == "Processing your request. Please wait..."
GreetingText == "Hi, this is Sehat Saarthi. How can I help you today?"
UnsupportedText == "I can only understand text or voice notes."
FailureText == "Sorry, there was an error processing your request. Please try again later."

get_text_message_input(recipient, txt) ==
    [messaging_product |-> "whatsapp", recipient_type |-> "individual",
     to |-> recipient, type |-> "text", text |-> txt, document |-> NoMedia]

get_document_message_input(recipient, document_id, caption) ==
    [messaging_product |-> "whatsapp", recipient_type |-> "individual",
     to |-> recipient, type |-> "document", text |-> caption,
     document |-> document_id]

SendPayloads ==
    {get_text_message_input(w, t) :
        w \in Senders, t \in {AckText, GreetingText, UnsupportedText, FailureText}}
        \cup {get_document_message_input(w, "media1", "Your medical report is ready.") :
                  w \in Senders}

NoPayload == [type |-> "none"]
NoOutcome == [kind |-> "none", status |-> 0]
NoReturn == [kind |-> "none", status |-> 0, raised |-> FALSE]

\* a caller calls send_message(data): headers and url are prepared
SendCall ==
    /\ spc \in {"idle", "returned"}
    /\ \E d \in SendPayloads : sdata' = d
    /\ spc' = "post"
    /\ sposts' = 0
    /\ soutcome' = NoOutcome
    /\ sret' = NoReturn
    /\ UNCHANGED notSend

\* requests.post(url, data, headers, timeout=10) and raise_for_status()
SendPost ==
    /\ spc = "post"
    /\ \E o \in PostOutcomes : soutcome' = o
    /\ sposts' = sposts + 1
    /\ spc' = "map"
    /\ UNCHANGED <<sdata, sret, notSend>>

\* the return statement of the try body or of the except clause taken
SendReturn ==
    /\ spc = "map"
    /\ sret' = send_message(soutcome)
    /\ spc' = "returned"
    /\ UNCHANGED <<sdata, sposts, soutcome, notSend>>

(***************************************************************************)
(* Inbound message bodies                                                  *)
(***************************************************************************)
BodyAlphabet == {"H", "i", " ", "x"}

TextBodies == SeqsUpTo(BodyAlphabet, MaxBodyLen)

\* the test without the strip
IsHiNoStrip(body) == Lower(body) = <<"h", "i">>

\* body.strip().lower() == "hi"
IsHi(body) == Lower(Strip(body)) = <<"h", "i">>

(***************************************************************************)
(* src/app.py: the script variant                                          *)
(***************************************************************************)
Handlers == {1, 2}

VERIFY_TOKEN == "my_secret_token"

\* verify() with the mode test left out
verify_token_only(mode, token, challenge) ==
    IF token = VERIFY_TOKEN
    THEN [body |-> challenge, status |-> 200]
    ELSE [body |-> "Verification failed", status |-> 403]

\* verify(): the value the view returns for the three query parameters
\* (request.args.get gives None for an absent one)
verify(mode, token, challenge) ==
    IF mode = "subscribe" /\ token = VERIFY_TOKEN
    THEN [body |-> challenge, status |-> 200]
    ELSE [body |-> "Verification failed", status |-> 403]

QueryModes == {None, "subscribe", "unsubscribe"}
QueryTokens == {None, "my_secret_token", "my_secret_token2", ""}
QueryChallenges == {None, "1158201444", "Verification failed"}

NoVerify ==
    [called |-> FALSE, mode |-> None, token |-> None, challenge |-> None,
     resp |-> [body |-> None, status |-> 0]]

\* the first message of every change that has one, in the order of the two
\* loops of webhook(): for entry in data["entry"], for change in
\* entry["changes"]
RECURSIVE ChangeMessages(_)
ChangeMessages(changes) ==
    IF changes = <<>> THEN <<>>
    ELSE LET change == Head(changes)
             value == IF Has(change, "value") THEN change.value ELSE <<>>
             messages == IF Has(value, "messages") THEN value.messages ELSE <<>>
         IN  (IF messages # <<>> THEN <<messages[1]>> ELSE <<>>)
                 \o ChangeMessages(Tail(changes))

RECURSIVE EntryMessages(_)
EntryMessages(entries) ==
    IF entries = <<>> THEN <<>>
    ELSE (IF Has(Head(entries), "changes")
          THEN ChangeMessages(Head(entries).changes) ELSE <<>>)
             \o EntryMessages(Tail(entries))

MessagesOf(data) ==
    IF TruthyColl(data, "entry") THEN EntryMessages(data.entry) ELSE <<>>

TextMessage(w, b) == [from |-> w, type |-> "text", text |-> [body |-> b]]

ChangeOf(m) == [field |-> "messages", value |-> [messages |-> <<m>>]]

\* messages of the two-message payloads
BatchMessages ==
    {TextMessage(w, b) : w \in Senders, b \in {<<"h", "i">>, <<"x">>}}
        \cup {[from |-> "w1", type |-> "image"]}

\* POST /webhook payloads: one text message with any body; two messages in
\* two changes of one entry or in two entries; events with no message
ScriptPayloads ==
    {[object |-> "whatsapp_business_account",
      entry |-> <<[id |-> "e1", changes |-> <<ChangeOf(TextMessage(w, b))>>]>>] :
        w \in Senders, b \in TextBodies}
    \cup {[object |-> "whatsapp_business_account",
           entry |-> <<[id |-> "e1", changes |-> <<ChangeOf(m1), ChangeOf(m2)>>]>>] :
             m1 \in BatchMessages, m2 \in BatchMessages}
    \cup {[object |-> "whatsapp_business_account",
           entry |-> <<[id |-> "e1", changes |-> <<ChangeOf(m1)>>],
                       [id |-> "e2", changes |-> <<ChangeOf(m2)>>]>>] :
             m1 \in BatchMessages, m2 \in BatchMessages}
    \cup {[object |-> "whatsapp_business_account"],
          [object |-> "whatsapp_business_account", entry |-> <<[id |-> "e1"]>>],
          [object |-> "whatsapp_business_account",
           entry |-> <<[id |-> "e1", changes |->
               <<[field |-> "messages",
                  value |-> [statuses |-> <<[status |-> "delivered"]>>]]>>]>>]}

\* the if / elif / else of webhook() on the state read for the sender
Branch(us, w, msg_text) ==
    IF w \in DOMAIN us /\ us[w] = "awaiting_name" THEN "greet_name"
    ELSE IF msg_text = <<"h", "i">> THEN "ask_name"
    ELSE "say_hi"

\* the text each branch hands to send_message
ReplyText(branch, body) ==
    CASE branch = "greet_name" -> <<"Hi ">> \o body \o <<" (wave)">>
      [] branch = "ask_name" -> <<"Hey! What's your name?">>
      [] OTHER -> <<"Say 'hi' to start">>

\* the update with the pop left out
UpdateStateNoPop(us, branch, w) ==
    CASE branch = "ask_name" ->
            [raised |-> FALSE,
             us |-> [k \in DOMAIN us \cup {w} |->
                        IF k = w THEN "awaiting_name" ELSE us[k]]]
      [] OTHER -> [raised |-> FALSE, us |-> us]

\* the statement after send_message in each branch: user_state.pop(wa_id)
\* (KeyError if the key is gone), user_state[wa_id] = "awaiting_name", or
\* nothing
UpdateState(us, branch, w) ==
    CASE branch = "greet_name" ->
            IF w \in DOMAIN us
            THEN [raised |-> FALSE, us |-> [k \in DOMAIN us \ {w} |-> us[k]]]
            ELSE [raised |-> TRUE, us |-> us]
      [] branch = "ask_name" ->
            [raised |-> FALSE,
             us |-> [k \in DOMAIN us \cup {w} |->
                        IF k = w THEN "awaiting_name" ELSE us[k]]]
      [] OTHER -> [raised |-> FALSE, us |-> us]

\* send_message(to, text) of the script: requests.post and response.json()
\* are not guarded; a 4xx or 5xx answer is only printed
ScriptSendOutcomes == {"sent", "rejected", "raise"}

NoSent == [to |-> None, text |-> <<>>, outcome |-> None]
NoResp == [body |-> None, status |-> 0]
OkResp == [body |-> "OK", status |-> 200]
ErrorResp == [body |-> "Internal Server Error", status |-> 500]

\* POST /webhook arrives at handler h; a payload without messages is
\* answered at once
Start(h, data) ==
    /\ hpc[h] = "idle"
    /\ LET msgs == MessagesOf(data)
       IN  IF msgs = <<>>
           THEN /\ hresp' = [hresp EXCEPT ![h] = OkResp]
                /\ UNCHANGED <<hpc, hreq>>
           ELSE /\ hpc' = [hpc EXCEPT ![h] = "check"]
                /\ hreq' = [hreq EXCEPT ![h] = msgs]
                /\ hresp' = [hresp EXCEPT ![h] = NoResp]
    /\ verified' = NoVerify
    /\ UNCHANGED <<user_state, hbranch, hsent, threaded, notScript>>

\* lines 49-57: message, wa_id, msg_text and the test of user_state
Check(h) ==
    /\ hpc[h] = "check"
    /\ LET message == Head(hreq[h])
       IN  IF ~Has(message, "text")
           THEN \* message["text"]: KeyError, the request fails
                /\ hpc' = [hpc EXCEPT ![h] = "idle"]
                /\ hreq' = [hreq EXCEPT ![h] = <<>>]
                /\ hresp' = [hresp EXCEPT ![h] = ErrorResp]
                /\ hbranch' = [hbranch EXCEPT ![h] = None]
                /\ hsent' = [hsent EXCEPT ![h] = NoSent]
           ELSE /\ hbranch' = [hbranch EXCEPT ![h] =
                       Branch(user_state, message.from,
                              Lower(Strip(message.text.body)))]
                /\ hpc' = [hpc EXCEPT ![h] = "send"]
                /\ UNCHANGED <<hreq, hresp, hsent>>
    /\ UNCHANGED <<user_state, verified, threaded, notScript>>

\* the send_message call of the branch taken
Send(h) ==
    /\ hpc[h] = "send"
    /\ \E o \in ScriptSendOutcomes :
          IF o = "raise"
          THEN \* the exception leaves webhook(): nothing after it runs
               /\ hpc' = [hpc EXCEPT ![h] = "idle"]
               /\ hreq' = [hreq EXCEPT ![h] = <<>>]
               /\ hresp' = [hresp EXCEPT ![h] = ErrorResp]
               /\ hbranch' = [hbranch EXCEPT ![h] = None]
               /\ hsent' = [hsent EXCEPT ![h] = NoSent]
          ELSE /\ hsent' = [hsent EXCEPT ![h] =
                      [to |-> Head(hreq[h]).from,
                       text |-> ReplyText(hbranch[h], Head(hreq[h]).text.body),
                       outcome |-> o]]
               /\ hpc' = [hpc EXCEPT ![h] = "update"]
               /\ UNCHANGED <<hreq, hresp, hbranch>>
    /\ UNCHANGED <<user_state, verified, threaded, notScript>>

\* the statement after the send, then the next message or return "OK", 200
Update(h) ==
    /\ hpc[h] = "update"
    /\ LET up == UpdateState(user_state, hbranch[h], Head(hreq[h]).from)
       IN  IF up.raised
           THEN /\ hpc' = [hpc EXCEPT ![h] = "idle"]
                /\ hreq' = [hreq EXCEPT ![h] = <<>>]
                /\ hresp' = [hresp EXCEPT ![h] = ErrorResp]
                /\ UNCHANGED user_state
           ELSE /\ user_state' = up.us
                /\ hreq' = [hreq EXCEPT ![h] = Tail(hreq[h])]
                /\ IF Tail(hreq[h]) = <<>>
                   THEN /\ hpc' = [hpc EXCEPT ![h] = "idle"]
                        /\ hresp' = [hresp EXCEPT ![h] = OkResp]
                   ELSE /\ hpc' = [hpc EXCEPT ![h] = "check"]
                        /\ UNCHANGED hresp
    /\ hbranch' = [hbranch EXCEPT ![h] = None]
    /\ hsent' = [hsent EXCEPT ![h] = NoSent]
    /\ UNCHANGED <<verified, threaded, notScript>>

\* GET /webhook
Verify(mode, token, challenge) ==
    /\ verified' = [called |-> TRUE, mode |-> mode, token |-> token,
                    challenge |-> challenge,
                    resp |-> verify(mode, token, challenge)]
    /\ UNCHANGED <<user_state, hpc, hreq, hbranch, hsent, hresp, threaded, notScript>>

AllIdle == \A h \in Handlers : hpc[h] = "idle"

\* requests are served one at a time
StartOne == AllIdle /\ \E h \in Handlers, data \in ScriptPayloads : Start(h, data)

CheckStep == \E h \in Handlers : Check(h)

SendStep == \E h \in Handlers : Send(h)

UpdateStep == \E h \in Handlers : Update(h)

VerifyStep ==
    /\ AllIdle
    /\ \E mode \in QueryModes, token \in QueryTokens, challenge \in QueryChallenges :
          Verify(mode, token, challenge)

\* the requests of the concurrent runs: one text message each
ConcurrentPayloads ==
    {[object |-> "whatsapp_business_account",
      entry |-> <<[id |-> "e1", changes |-> <<ChangeOf(TextMessage(w, b))>>]>>] :
        w \in Senders, b \in {<<"h", "i">>, <<"x">>}}

\* a request is taken whenever a handler is free
StartUnserialized ==
    \E h \in Handlers, data \in ConcurrentPayloads : Start(h, data)

\* app.run(): a threaded server takes a request whenever a handler is free,
\* a single-threaded one only when no request is being handled
StartConcurrent ==
    /\ threaded \/ AllIdle
    /\ \E h \in Handlers, data \in ConcurrentPayloads : Start(h, data)

(***************************************************************************)
(* process_whatsapp_message                                                *)
(***************************************************************************)
PipeMessages ==
    {TextMessage("w1", b) : b \in TextBodies}
        \cup {[from |-> "w1", type |-> "text"],
              [from |-> "w1", type |-> "audio", audio |-> [id |-> "m1"]],
              [from |-> "w1", type |-> "audio"],
              [from |-> "w1", type |-> "image"],
              [from |-> "w1"]}

ContactOf(w) == [wa_id |-> w, profile |-> [name |-> "Asha"]]

\* the "value" objects: a contact and a message; then values with a part
\* of the contact or the message list missing
PipeValues ==
    {[contacts |-> <<ContactOf(w)>>, messages |-> <<m>>] :
        w \in Senders, m \in PipeMessages}
    \cup {[messages |-> <<m>>] : m \in BatchMessages}
    \cup {[contacts |-> <<>>, messages |-> <<m>>] : m \in BatchMessages}
    \cup {[contacts |-> <<[profile |-> [name |-> "Asha"]]>>, messages |-> <<m>>] :
             m \in BatchMessages}
    \cup {[contacts |-> <<[wa_id |-> "w1"]>>, messages |-> <<m>>] :
             m \in BatchMessages}
    \cup {[contacts |-> <<[wa_id |-> "w1", profile |-> <<>>]>>, messages |-> <<m>>] :
             m \in BatchMessages}
    \cup {[contacts |-> <<ContactOf("w1")>>],
          [contacts |-> <<ContactOf("w1")>>, messages |-> <<>>],
          [statuses |-> <<[status |-> "delivered"]>>],
          <<>>}

PipeBodies ==
    {[object |-> "whatsapp_business_account",
      entry |-> <<[id |-> "e1", changes |-> <<[field |-> "messages", value |-> v]>>]>>] :
        v \in PipeValues}
    \cup {[object |-> "whatsapp_business_account"],
          [object |-> "whatsapp_business_account", entry |-> <<>>],
          [object |-> "whatsapp_business_account", entry |-> <<[id |-> "e1"]>>],
          [object |-> "whatsapp_business_account",
           entry |-> <<[id |-> "e1", changes |-> <<>>]>>],
          [object |-> "whatsapp_business_account",
           entry |-> <<[id |-> "e1", changes |-> <<[field |-> "messages"]>>]>>]}

\* body["entry"][0]["changes"][0]["value"] does not raise
HasValuePath(b) ==
    /\ Has(b, "entry") /\ b.entry # <<>>
    /\ Has(b.entry[1], "changes") /\ b.entry[1].changes # <<>>
    /\ Has(b.entry[1].changes[1], "value")

ValueOf(b) == b.entry[1].changes[1].value

\* ...["contacts"][0]["wa_id"] does not raise
HasWaId(b) ==
    /\ HasValuePath(b)
    /\ Has(ValueOf(b), "contacts") /\ ValueOf(b).contacts # <<>>
    /\ Has(ValueOf(b).contacts[1], "wa_id")

\* ...["contacts"][0]["profile"]["name"] does not raise
HasName(b) ==
    /\ HasWaId(b)
    /\ Has(ValueOf(b).contacts[1], "profile")
    /\ Has(ValueOf(b).contacts[1].profile, "name")

\* ...["messages"][0] does not raise
HasMessage(b) ==
    /\ HasValuePath(b)
    /\ Has(ValueOf(b), "messages") /\ ValueOf(b).messages # <<>>

MessageOf(b) == ValueOf(b).messages[1]


NoLocals ==
    [wa_id_bound |-> FALSE, wa_id |-> None,
     name_bound |-> FALSE, name |-> None,
     message_type |-> None,
     source |-> NoText, translated |-> NoText, patient_name |-> None,
     pdf |-> NoPdf, file_name |-> <<>>, media_id |-> NoMedia,
     audio_url |-> None, caption |-> None]

\* lines 299-306: the locals bound before the first failing subscript, and
\* whether one failed
ExtractFields(b) ==
    IF ~HasWaId(b) THEN [raised |-> TRUE, loc |-> NoLocals]
    ELSE LET l1 == [NoLocals EXCEPT !.wa_id_bound = TRUE,
                                    !.wa_id = ValueOf(b).contacts[1].wa_id]
         IN  IF ~HasName(b) THEN [raised |-> TRUE, loc |-> l1]
             ELSE LET l2 == [l1 EXCEPT !.name_bound = TRUE,
                                       !.name = ValueOf(b).contacts[1].profile.name]
                  IN  IF ~HasMessage(b) THEN [raised |-> TRUE, loc |-> l2]
                      ELSE [raised |-> FALSE,
                            loc |-> [l2 EXCEPT !.message_type =
                                        IF Has(MessageOf(b), "type")
                                        THEN MessageOf(b).type ELSE None]]

\* the branch skipping the translation: the PDF is made from the body
DispatchNoTranslate(message_type, message) ==
    IF message_type = "text"
    THEN IF ~(Has(message, "text") /\ Has(message.text, "body")) THEN "except"
         ELSE IF IsHi(message.text.body) THEN "greet"
         ELSE "make_pdf"
    ELSE IF message_type = "audio"
    THEN IF ~(Has(message, "audio") /\ Has(message.audio, "id")) THEN "except"
         ELSE "get_media_url"
    ELSE "unsupported"

\* lines 313-317, 349-351, 378: where the type and the body lead
Dispatch(message_type, message) ==
    IF message_type = "text"
    THEN IF ~(Has(message, "text") /\ Has(message.text, "body")) THEN "except"
         ELSE IF IsHi(message.text.body) THEN "greet"
         ELSE "translate"
    ELSE IF message_type = "audio"
    THEN IF ~(Has(message, "audio") /\ Has(message.audio, "id")) THEN "except"
         ELSE "get_media_url"
    ELSE "unsupported"

\* what client.models.generate_content and response.text do
GeminiOutcomes == {"text", "no_text", "raise"}

\* translate_to_english without its try / except
translate_to_english_unguarded(key, o, source) ==
    IF ~key
    THEN [kind |-> "str", origin |-> "fallback_no_key", quoted |-> source.quoted]
    ELSE IF o = "raise"
    THEN [kind |-> "raised", origin |-> None, quoted |-> <<>>]
    ELSE IF o = "text"
    THEN [kind |-> "str", origin |-> "model", quoted |-> source.quoted]
    ELSE [kind |-> "None", origin |-> "model", quoted |-> <<>>]

\* translate_to_english(text): the model's text (None when the response
\* has none), or a fallback string quoting the text
translate_to_english(key, o, source) ==
    IF ~key
    THEN [kind |-> "str", origin |-> "fallback_no_key", quoted |-> source.quoted]
    ELSE IF o = "raise"
    THEN [kind |-> "str", origin |-> "fallback_error", quoted |-> source.quoted]
    ELSE IF o = "text"
    THEN [kind |-> "str", origin |-> "model", quoted |-> source.quoted]
    ELSE [kind |-> "None", origin |-> "model", quoted |-> <<>>]

\* extract_patient_name(text): None or the name the patterns capture.  The
\* no-key fallback has no "patient" or "name" in it unless the body has.
PatientNames(translated) ==
    IF translated.origin = "fallback_no_key" THEN {None} ELSE {None, "Asha"}

\* the title of generate_pdf_from_text and the file name of lines 334-337
ReportTitle(patient_name) ==
    IF patient_name # None
    THEN <<patient_name, "'s Medical Report">> ELSE <<"Your Medical Report">>

ReportFileName(patient_name) ==
    IF patient_name # None
    THEN <<patient_name, " Medical Report.pdf">> ELSE <<"Your Medical Report.pdf">>

\* get_media_url(media_id): raise_for_status() raises, or the "url" of the
\* JSON answer, None when it has none
MediaUrlOutcomes == {"url", "no_url", "raise"}

get_media_url(o) ==
    CASE o = "raise" -> [raised |-> TRUE, url |-> None]
      [] o = "no_url" -> [raised |-> FALSE, url |-> None]
      [] OTHER -> [raised |-> FALSE, url |-> "https://lookaside/m1"]

DownloadOutcomes == {"content", "raise"}

\* download_media without raise_for_status: an error page is content
download_media_unchecked(url, o) == [raised |-> FALSE]

\* download_media(url): requests.get(None) raises MissingSchema
download_media(url, o) == [raised |-> url = None \/ o = "raise"]

\* transcribe_audio: a transcript, one of its three apology strings, or an
\* ImportError from the imports above its try
TranscribeOutcomes == {"transcript", "apology", "raise"}

\* 'name' in locals() in place of 'wa_id' in locals()
KnowsRecipientByName(l) == l.name_bound

\* line 390: 'wa_id' in locals()
KnowsRecipient(l) == l.wa_id_bound

\* an entry of the call log: the function, whether it raised, the payload
\* (of a send) and what came back
Call(fn, raised, data, ret) == [fn |-> fn, raised |-> raised, data |-> data, ret |-> ret]

\* what the service behind a call did
Outcome(o) == [kind |-> o, status |-> 0, raised |-> FALSE]

SendEntry(data, o) == Call("send_message", FALSE, data, send_message(o))

ErrorResult == [kind |-> "error", status |-> 500, raised |-> FALSE]

\* the webhook view calls process_whatsapp_message(body)
Receive ==
    /\ pc = "idle"
    /\ payload' \in PipeBodies
    /\ pc' = "extract"
    /\ UNCHANGED <<gemini_key, loc, calls, result, notPipe>>

\* lines 299-306
Extract ==
    /\ pc = "extract"
    /\ LET x == ExtractFields(payload)
       IN  /\ loc' = x.loc
           /\ pc' = IF x.raised THEN "except" ELSE "ack"
    /\ UNCHANGED <<payload, gemini_key, calls, result, notPipe>>

\* lines 310-311: the acknowledgment; what send_message returns is dropped
Ack ==
    /\ pc = "ack"
    /\ \E o \in PostOutcomes :
          calls' = Append(calls,
              SendEntry(get_text_message_input(loc.wa_id, AckText), o))
    /\ pc' = Dispatch(loc.message_type, MessageOf(payload))
    /\ UNCHANGED <<payload, gemini_key, loc, result, notPipe>>

\* lines 319-320
Greet ==
    /\ pc = "greet"
    /\ \E o \in PostOutcomes :
          /\ calls' = Append(calls,
                 SendEntry(get_text_message_input(loc.wa_id, GreetingText), o))
          /\ result' = send_message(o)
    /\ pc' = "done"
    /\ UNCHANGED <<payload, gemini_key, loc, notPipe>>

\* lines 380-381
Unsupported ==
    /\ pc = "unsupported"
    /\ \E o \in PostOutcomes :
          /\ calls' = Append(calls,
                 SendEntry(get_text_message_input(loc.wa_id, UnsupportedText), o))
          /\ result' = send_message(o)
    /\ pc' = "done"
    /\ UNCHANGED <<payload, gemini_key, loc, notPipe>>

\* lines 351-352
GetMediaUrl ==
    /\ pc = "get_media_url"
    /\ \E o \in MediaUrlOutcomes :
          LET r == get_media_url(o)
          IN  /\ calls' = Append(calls, Call("get_media_url", r.raised, NoPayload, Outcome(o)))
              /\ loc' = [loc EXCEPT !.audio_url = r.url]
              /\ pc' = IF r.raised THEN "except" ELSE "download_media"
    /\ UNCHANGED <<payload, gemini_key, result, notPipe>>

\* line 353
DownloadMedia ==
    /\ pc = "download_media"
    /\ \E o \in DownloadOutcomes :
          LET r == download_media(loc.audio_url, o)
          IN  /\ calls' = Append(calls, Call("download_media", r.raised, NoPayload, Outcome(o)))
              /\ pc' = IF r.raised THEN "except" ELSE "transcribe"
    /\ UNCHANGED <<payload, gemini_key, loc, result, notPipe>>

\* line 356
Transcribe ==
    /\ pc = "transcribe"
    /\ \E o \in TranscribeOutcomes :
          /\ calls' = Append(calls,
                 Call("transcribe_audio", o = "raise", NoPayload, Outcome(o)))
          /\ IF o = "raise"
             THEN pc' = "except" /\ UNCHANGED loc
             ELSE /\ pc' = "translate"
                  /\ loc' = [loc EXCEPT !.source =
                         [kind |-> "str", origin |-> o, quoted |-> <<"(audio)">>]]
    /\ UNCHANGED <<payload, gemini_key, result, notPipe>>

\* lines 314 and 324, or line 357
Translate ==
    /\ pc = "translate"
    /\ \E o \in (IF gemini_key THEN GeminiOutcomes ELSE {"not_called"}) :
          LET source == IF loc.message_type = "text"
                        THEN [kind |-> "str", origin |-> "message",
                              quoted |-> MessageOf(payload).text.body]
                        ELSE loc.source
              t == translate_to_english(gemini_key, o, source)
          IN  /\ calls' = Append(calls,
                     Call("translate_to_english", t.kind = "raised", NoPayload,
                          Outcome(o)))
              /\ loc' = [loc EXCEPT !.source = source, !.translated = t]
              /\ pc' = IF t.kind = "raised" THEN "except" ELSE "make_pdf"
    /\ UNCHANGED <<payload, gemini_key, result, notPipe>>

\* lines 327-337 (360-370): extract_patient_name raises TypeError on None;
\* generate_pdf_from_text may raise on markup the PDF library rejects
MakePdf ==
    /\ pc = "make_pdf"
    /\ LET t == IF loc.translated.kind = "unbound"
                THEN [kind |-> "str", origin |-> "message",
                      quoted |-> MessageOf(payload).text.body]
                ELSE loc.translated
       IN  IF t.kind = "None"
           THEN /\ pc' = "except"
                /\ UNCHANGED <<loc, calls>>
           ELSE \E patient_name \in PatientNames(t), built \in BOOLEAN :
                   /\ calls' = Append(calls,
                          Call("generate_pdf_from_text", ~built, NoPayload, NoReturn))
                   /\ IF built
                      THEN /\ loc' = [loc EXCEPT
                                  !.patient_name = patient_name,
                                  !.pdf = [kind |-> "pdf",
                                           title |-> ReportTitle(patient_name),
                                           content |-> t],
                                  !.file_name = ReportFileName(patient_name)]
                           /\ pc' = "upload"
                      ELSE /\ loc' = [loc EXCEPT !.patient_name = patient_name]
                           /\ pc' = "except"
    /\ UNCHANGED <<payload, gemini_key, result, notPipe>>

\* the upload with its failure swallowed: the document send follows anyway
UploadIgnoreFailure ==
    /\ pc = "upload"
    /\ \E uploaded \in BOOLEAN :
          /\ calls' = Append(calls,
                 Call("upload_media_to_whatsapp", ~uploaded, NoPayload, NoReturn))
          /\ loc' = IF uploaded
                    THEN [loc EXCEPT !.media_id =
                             [kind |-> "media", file_name |-> loc.file_name,
                              data |-> loc.pdf]]
                    ELSE loc
          /\ pc' = "send_document"
    /\ UNCHANGED <<payload, gemini_key, result, notPipe>>

\* line 340 (373): upload_media_to_whatsapp re-raises what the POST raised
Upload ==
    /\ pc = "upload"
    /\ \E uploaded \in BOOLEAN :
          /\ calls' = Append(calls,
                 Call("upload_media_to_whatsapp", ~uploaded, NoPayload, NoReturn))
          /\ IF uploaded
             THEN /\ loc' = [loc EXCEPT !.media_id =
                         [kind |-> "media", file_name |-> loc.file_name,
                          data |-> loc.pdf]]
                  /\ pc' = "send_document"
             ELSE pc' = "except" /\ UNCHANGED loc
    /\ UNCHANGED <<payload, gemini_key, result, notPipe>>

\* lines 343-347 (376-377)
SendDocument ==
    /\ pc = "send_document"
    /\ \E o \in PostOutcomes :
          /\ calls' = Append(calls,
                 SendEntry(get_document_message_input(loc.wa_id, loc.media_id,
                     IF loc.message_type = "text"
                     THEN "Your medical report is ready."
                     ELSE "Your audio message has been transcribed and translated"),
                     o))
          /\ result' = send_message(o)
    /\ pc' = "done"
    /\ UNCHANGED <<payload, gemini_key, loc, notPipe>>

\* lines 383-396
Except ==
    /\ pc = "except"
    /\ IF KnowsRecipient(loc)
       THEN \E o \in PostOutcomes :
               calls' = Append(calls,
                   SendEntry(get_text_message_input(loc.wa_id, FailureText), o))
       ELSE UNCHANGED calls
    /\ result' = ErrorResult
    /\ pc' = "done"
    /\ UNCHANGED <<payload, gemini_key, loc, notPipe>>

(***************************************************************************)
(* Specifications                                                          *)
(***************************************************************************)
InitFormat ==
    /\ text \in FormatInputs
    /\ formatted = <<>>
    /\ vbody = <<>> /\ vbodyAfter = <<>> /\ vresult = <<>>
    /\ spc = "idle" /\ sdata = NoPayload /\ sposts = 0
    /\ soutcome = NoOutcome /\ sret = NoReturn
    /\ user_state = <<>>
    /\ hpc = [h \in Handlers |-> "idle"]
    /\ hreq = [h \in Handlers |-> <<>>]
    /\ hbranch = [h \in Handlers |-> None]
    /\ hsent = [h \in Handlers |-> NoSent]
    /\ hresp = [h \in Handlers |-> NoResp]
    /\ verified = NoVerify
    /\ threaded = FALSE
    /\ pc = "off" /\ payload = <<>> /\ gemini_key = FALSE
    /\ loc = NoLocals /\ calls = <<>> /\ result = NoReturn

NextFormat == Format

SpecFormat == InitFormat /\ [][NextFormat]_vars

InitValid ==
    /\ text = <<>> /\ formatted = <<>>
    /\ vbody \in ShapeBodies
    /\ vbodyAfter = vbody
    /\ vresult = <<>>
    /\ spc = "idle" /\ sdata = NoPayload /\ sposts = 0
    /\ soutcome = NoOutcome /\ sret = NoReturn
    /\ user_state = <<>>
    /\ hpc = [h \in Handlers |-> "idle"]
    /\ hreq = [h \in Handlers |-> <<>>]
    /\ hbranch = [h \in Handlers |-> None]
    /\ hsent = [h \in Handlers |-> NoSent]
    /\ hresp = [h \in Handlers |-> NoResp]
    /\ verified = NoVerify
    /\ threaded = FALSE
    /\ pc = "off" /\ payload = <<>> /\ gemini_key = FALSE
    /\ loc = NoLocals /\ calls = <<>> /\ result = NoReturn

NextValid ==
    \/ Validate
    \/ NextPayload

SpecValid == InitValid /\ [][NextValid]_vars

InitSend ==
    /\ text = <<>> /\ formatted = <<>>
    /\ vbody = <<>> /\ vbodyAfter = <<>> /\ vresult = <<>>
    /\ spc = "idle" /\ sdata = NoPayload /\ sposts = 0
    /\ soutcome = NoOutcome /\ sret = NoReturn
    /\ user_state = <<>>
    /\ hpc = [h \in Handlers |-> "idle"]
    /\ hreq = [h \in Handlers |-> <<>>]
    /\ hbranch = [h \in Handlers |-> None]
    /\ hsent = [h \in Handlers |-> NoSent]
    /\ hresp = [h \in Handlers |-> NoResp]
    /\ verified = NoVerify
    /\ threaded = FALSE
    /\ pc = "off" /\ payload = <<>> /\ gemini_key = FALSE
    /\ loc = NoLocals /\ calls = <<>> /\ result = NoReturn

NextSend ==
    \/ SendCall
    \/ SendPost
    \/ SendReturn

SpecSend == InitSend /\ [][NextSend]_vars

\* the script starts with an empty session mapping
InitScript ==
    /\ text = <<>> /\ formatted = <<>>
    /\ vbody = <<>> /\ vbodyAfter = <<>> /\ vresult = <<>>
    /\ spc = "idle" /\ sdata = NoPayload /\ sposts = 0
    /\ soutcome = NoOutcome /\ sret = NoReturn
    /\ user_state = <<>>
    /\ hpc = [h \in Handlers |-> "idle"]
    /\ hreq = [h \in Handlers |-> <<>>]
    /\ hbranch = [h \in Handlers |-> None]
    /\ hsent = [h \in Handlers |-> NoSent]
    /\ hresp = [h \in Handlers |-> NoResp]
    /\ verified = NoVerify
    /\ threaded = FALSE
    /\ pc = "off" /\ payload = <<>> /\ gemini_key = FALSE
    /\ loc = NoLocals /\ calls = <<>> /\ result = NoReturn

NextScript ==
    \/ StartOne
    \/ CheckStep
    \/ SendStep
    \/ UpdateStep
    \/ VerifyStep

SpecScript == InitScript /\ [][NextScript]_vars

\* the script served either by a threaded or by a single-threaded server
InitConcurrent ==
    /\ text = <<>> /\ formatted = <<>>
    /\ vbody = <<>> /\ vbodyAfter = <<>> /\ vresult = <<>>
    /\ spc = "idle" /\ sdata = NoPayload /\ sposts = 0
    /\ soutcome = NoOutcome /\ sret = NoReturn
    /\ user_state = <<>>
    /\ hpc = [h \in Handlers |-> "idle"]
    /\ hreq = [h \in Handlers |-> <<>>]
    /\ hbranch = [h \in Handlers |-> None]
    /\ hsent = [h \in Handlers |-> NoSent]
    /\ hresp = [h \in Handlers |-> NoResp]
    /\ verified = NoVerify
    /\ threaded \in BOOLEAN
    /\ pc = "off" /\ payload = <<>> /\ gemini_key = FALSE
    /\ loc = NoLocals /\ calls = <<>> /\ result = NoReturn

NextConcurrent ==
    \/ StartConcurrent
    \/ CheckStep
    \/ SendStep
    \/ UpdateStep

SpecConcurrent == InitConcurrent /\ [][NextConcurrent]_vars

\* a worker with its configuration loaded, waiting for a webhook call
Init ==
    /\ text = <<>> /\ formatted = <<>>
    /\ vbody = <<>> /\ vbodyAfter = <<>> /\ vresult = <<>>
    /\ spc = "idle" /\ sdata = NoPayload /\ sposts = 0
    /\ soutcome = NoOutcome /\ sret = NoReturn
    /\ user_state = <<>>
    /\ hpc = [h \in Handlers |-> "idle"]
    /\ hreq = [h \in Handlers |-> <<>>]
    /\ hbranch = [h \in Handlers |-> None]
    /\ hsent = [h \in Handlers |-> NoSent]
    /\ hresp = [h \in Handlers |-> NoResp]
    /\ verified = NoVerify
    /\ threaded = FALSE
    /\ pc = "idle" /\ payload = <<>> /\ gemini_key \in BOOLEAN
    /\ loc = NoLocals /\ calls = <<>> /\ result = NoReturn

Next ==
    \/ Receive
    \/ Extract
    \/ Ack
    \/ Greet
    \/ Unsupported
    \/ GetMediaUrl
    \/ DownloadMedia
    \/ Transcribe
    \/ Translate
    \/ MakePdf
    \/ Upload
    \/ SendDocument
    \/ Except

Spec == Init /\ [][Next]_vars

(***************************************************************************)
(* Properties                                                              *)
(***************************************************************************)
\* the sender id and display name can be extracted and there is a message
WellFormed == pc # "idle" /\ HasName(payload) /\ HasMessage(payload)

SenderOf(b) == ValueOf(b).contacts[1].wa_id

\* a text message with a body
IsTextMessage ==
    /\ WellFormed
    /\ Has(MessageOf(payload), "type") /\ MessageOf(payload).type = "text"
    /\ Has(MessageOf(payload), "text") /\ Has(MessageOf(payload).text, "body")

\* b is "hi" in either case between leading and trailing whitespace
HiLike(b) ==
    \E i \in 1..(Len(b) - 1) :
        /\ b[i] \in {"h", "H"} /\ b[i + 1] \in {"i", "I"}
        /\ \A k \in 1..Len(b) : k \notin {i, i + 1} => b[k] \in {" ", "\n"}

CallsOf(fns) == {i \in 1..Len(calls) : calls[i].fn \in fns}

IsSendOf(c, w, txt) ==
    c.fn = "send_message" /\ c.data.to = w /\ c.data.type = "text" /\ c.data.text = txt

IsDocumentSend(c) == c.fn = "send_message" /\ c.data.type = "document"

\* C1: GET /webhook answers the challenge with 200 exactly when mode is
\* "subscribe" and the token is the verify token, otherwise "Verification
\* failed" with 403, whatever parameters are present; answering leaves
\* user_state as it was.
C1_VerifyContract ==
    [][(verified'.called /\ verified' # verified) =>
          /\ verified'.resp =
                 IF verified'.mode = "subscribe" /\ verified'.token = "my_secret_token"
                 THEN [body |-> verified'.challenge, status |-> 200]
                 ELSE [body |-> "Verification failed", status |-> 403]
          /\ user_state' = user_state]_vars

\* a verification answered with the challenge while a session is open
C1_Witness ==
    /\ verified.called /\ verified.resp.status = 200
    /\ verified.resp.body = "1158201444"
    /\ DOMAIN user_state # {}

NonHiText == IsTextMessage /\ ~HiLike(MessageOf(payload).text.body)

\* C3 (as amended): for a text message that is not "hi" and whose sender id
\* and name can be extracted, the translation adapter is called exactly
\* once; the acknowledgment send precedes it and every other send follows
\* it.
C3_OneTranslation ==
    NonHiText =>
        /\ Cardinality(CallsOf({"translate_to_english"})) <= 1
        /\ \A i \in CallsOf({"translate_to_english"}) :
              /\ i = 2
              /\ IsSendOf(calls[1], SenderOf(payload), AckText)
        /\ \A i \in CallsOf({"send_message"}) :
              i > 1 => CallsOf({"translate_to_english"}) = {2}
        /\ pc = "done" => Cardinality(CallsOf({"translate_to_english"})) = 1

\* C3 as stated: exactly one translation call, before any send
C3_Original ==
    NonHiText =>
        /\ \A i \in CallsOf({"translate_to_english"}) :
              \A j \in CallsOf({"send_message"}) : i < j
        /\ pc = "done" => Cardinality(CallsOf({"translate_to_english"})) = 1

\* a translated text answered with a document
C3_Witness ==
    /\ NonHiText /\ pc = "done"
    /\ CallsOf({"translate_to_english"}) = {2}
    /\ IsDocumentSend(calls[Len(calls)])

\* the generative-AI call threw, or the API key is not configured
TranslationFailed ==
    \E i \in CallsOf({"translate_to_english"}) :
        calls[i].ret.kind \in {"raise", "not_called"}

StepRaised(fns) == \E i \in CallsOf(fns) : calls[i].raised

\* C4 (as amended): when the translation adapter fails for a non-"hi" text,
\* translate_to_english returns a fallback string quoting the text and does
\* not raise; the report is built from that string, and the user is sent
\* that report as a document when PDF generation and upload succeed and the
\* generic failure notice when one of them fails; the pipeline returns a
\* value in every case.
C4_TranslationFallback ==
    (NonHiText /\ TranslationFailed) =>
        /\ ~StepRaised({"translate_to_english"})
        /\ loc.translated.kind = "str"
        /\ loc.translated.origin \in {"fallback_no_key", "fallback_error"}
        /\ loc.translated.quoted = MessageOf(payload).text.body
        /\ ~result.raised
        /\ pc = "done" =>
              LET last == calls[Len(calls)]
              IN  IF StepRaised({"generate_pdf_from_text", "upload_media_to_whatsapp"})
                  THEN /\ IsSendOf(last, SenderOf(payload), FailureText)
                       /\ result = ErrorResult
                  ELSE /\ IsDocumentSend(last)
                       /\ last.data.to = SenderOf(payload)
                       /\ last.data.document.data.content = loc.translated
                       /\ result = last.ret

\* C4 as stated: the user is always sent a response holding the fallback
C4_Original ==
    (NonHiText /\ TranslationFailed) =>
        /\ ~StepRaised({"translate_to_english"})
        /\ ~result.raised
        /\ pc = "done" =>
              LET last == calls[Len(calls)]
              IN  /\ IsDocumentSend(last)
                  /\ last.data.document.data.content = loc.translated

\* the fallback for a thrown generative-AI call delivered as a report
C4_Witness ==
    /\ NonHiText /\ pc = "done"
    /\ \E i \in CallsOf({"translate_to_english"}) : calls[i].ret.kind = "raise"
    /\ IsDocumentSend(calls[Len(calls)])
    /\ calls[Len(calls)].data.document.data.content.origin = "fallback_error"

\* the media URL lookup raised, or the download raised or had no URL to fetch
MediaFetchFailed ==
    \/ \E i \in CallsOf({"get_media_url"}) : calls[i].ret.kind = "raise"
    \/ \E i \in CallsOf({"download_media"}) :
          calls[i].ret.kind = "raise" \/ loc.audio_url = None

\* C5: when the media URL lookup or the download of an audio message fails,
\* transcription, translation, PDF generation and upload are never called
\* and no document is sent; the request ends with the generic failure
\* notice sent to the sender.
C5_AudioFetchFailure ==
    (WellFormed /\ MediaFetchFailed) =>
        /\ CallsOf({"transcribe_audio", "translate_to_english",
                    "generate_pdf_from_text", "upload_media_to_whatsapp"}) = {}
        /\ \A i \in 1..Len(calls) : ~IsDocumentSend(calls[i])
        /\ pc = "done" =>
              /\ IsSendOf(calls[Len(calls)], SenderOf(payload), FailureText)
              /\ result = ErrorResult

\* a failed download answered with the failure notice
C5_Witness ==
    /\ WellFormed /\ pc = "done"
    /\ \E i \in CallsOf({"download_media"}) :
          calls[i].ret.kind = "raise" /\ loc.audio_url # None
    /\ IsSendOf(calls[Len(calls)], SenderOf(payload), FailureText)

\* a subscript of the payload raised, or a called step did
PipelineFailed ==
    \/ ~HasName(payload) \/ ~HasMessage(payload)
    \/ /\ HasName(payload) /\ HasMessage(payload)
       /\ Has(MessageOf(payload), "type")
       /\ \/ /\ MessageOf(payload).type = "text"
             /\ ~(Has(MessageOf(payload), "text")
                    /\ Has(MessageOf(payload).text, "body"))
          \/ /\ MessageOf(payload).type = "audio"
             /\ ~(Has(MessageOf(payload), "audio")
                    /\ Has(MessageOf(payload).audio, "id"))
    \/ \E i \in 1..Len(calls) : calls[i].raised
    \/ \E i \in CallsOf({"get_media_url"}) : calls[i].ret.kind = "raise"
    \/ \E i \in CallsOf({"download_media"}) :
          calls[i].ret.kind = "raise" \/ loc.audio_url = None
    \/ loc.translated.kind = "None"

\* C6: a failure in any step ends the request with the error result of
\* status 500 and never with an exception; the generic failure notice is
\* sent, once and last, when wa_id had been extracted, and nothing at all is
\* sent when the failure came before that.
C6_FailuresCaught ==
    /\ ~result.raised
    /\ (pc = "done" /\ PipelineFailed) =>
          /\ result = ErrorResult
          /\ IF HasWaId(payload)
             THEN /\ calls # <<>>
                  /\ IsSendOf(calls[Len(calls)], ValueOf(payload).contacts[1].wa_id,
                              FailureText)
                  /\ \A i \in 1..(Len(calls) - 1) :
                        ~(calls[i].fn = "send_message" /\ calls[i].data.text = FailureText)
             ELSE calls = <<>>

\* the name is missing: wa_id is known, nothing was acknowledged, the
\* notice is the only message
C6_Witness ==
    /\ pc = "done" /\ HasWaId(payload) /\ ~HasName(payload)
    /\ Len(calls) = 1
    /\ IsSendOf(calls[1], ValueOf(payload).contacts[1].wa_id, FailureText)
    /\ result = ErrorResult

\* the state of sender w in a session mapping
SessionOf(us, w) == IF w \in DOMAIN us THEN us[w] ELSE "none"

\* handler h completes its current message in this step
Completes(h) == hpc[h] = "update" /\ hpc'[h] # "update"

\* handler h gives up its request in this step, at the check or the send
Aborts(h) == hpc[h] \in {"check", "send"} /\ hpc'[h] = "idle"

\* what the step that completes h's current message does for its sender:
\* the reply and the sender's next state follow from the state before it
RoundTrip(h) ==
    LET m == Head(hreq[h])
        w == m.from
        before == SessionOf(user_state, w)
        after == SessionOf(user_state', w)
    IN  /\ hsent[h].to = w
        /\ before = "awaiting_name" =>
              /\ hsent[h].text = <<"Hi ">> \o m.text.body \o <<" (wave)">>
              /\ after = "none"
        /\ (before = "none" /\ HiLike(m.text.body)) =>
              /\ hsent[h].text = <<"Hey! What's your name?">>
              /\ after = "awaiting_name"
        /\ (before = "none" /\ ~HiLike(m.text.body)) =>
              /\ hsent[h].text = <<"Say 'hi' to start">>
              /\ after = "none"
        /\ \A o \in Senders \ {w} :
              SessionOf(user_state', o) = SessionOf(user_state, o)

SessionTypeOK(us) ==
    /\ DOMAIN us \subseteq Senders
    /\ \A w \in DOMAIN us : us[w] = "awaiting_name"

\* C7 (as amended): with requests handled one at a time, every sender is in
\* none or awaiting_name; a message whose reply is sent moves its sender
\* none -> awaiting_name exactly when it is "hi" after strip and lower, and
\* awaiting_name -> none whatever its body, with the name greeting; a
\* message whose send raises is dropped with the state left as it was; no
\* step changes the state of another sender.
C7_SessionRoundTrip ==
    [][/\ SessionTypeOK(user_state')
       /\ \A h \in Handlers : Completes(h) => RoundTrip(h)
       /\ (\A h \in Handlers : ~Completes(h)) => user_state' = user_state]_vars

\* C7 as stated: the message after "hi" always clears the state
C7_Original ==
    [][/\ SessionTypeOK(user_state')
       /\ \A h \in Handlers : Completes(h) => RoundTrip(h)
       /\ \A h \in Handlers :
             (Aborts(h) /\ Has(Head(hreq[h]), "text")
                 /\ SessionOf(user_state, Head(hreq[h]).from) = "awaiting_name")
                 => SessionOf(user_state', Head(hreq[h]).from) = "none"]_vars

\* a "hi" answered with the name greeting because its sender was awaiting,
\* while the other sender is awaiting too
C7_Witness ==
    \E h \in Handlers :
        /\ hpc[h] = "update"
        /\ hbranch[h] = "greet_name"
        /\ Head(hreq[h]).text.body = <<"H", "i">>
        /\ hsent[h].text = <<"Hi ", "H", "i", " (wave)">>
        /\ DOMAIN user_state = Senders

\* no two adjacent asterisks
NoDoubleAsterisk(s) == \A i \in 1..(Len(s) - 1) : ~(s[i] = "*" /\ s[i + 1] = "*")

Idempotent == \A i \in 2..Len(formatted) : formatted[i] = formatted[i - 1]

\* C8 (as amended): formatting is idempotent on every input that has no
\* double asterisk left once its bracket annotations are removed and it is
\* trimmed.
C8_FormatIdempotent ==
    NoDoubleAsterisk(Strip(RemoveBracketsFrom(text, 1))) => Idempotent

\* C8 as stated: idempotent on every input with no double asterisk in it
C8_Original == NoDoubleAsterisk(text) => Idempotent

\* an input with annotations and single asterisks, formatted twice
C8_Witness ==
    /\ Len(formatted) >= 2
    /\ text = <<"*", "[", "]", "a", "*">>
    /\ formatted[1] = <<"*", "a", "*">>
    /\ formatted[2] = formatted[1]

\* entry, changes in entry[0], value in changes[0], messages in it and its
\* first message are all present and non-empty
MessageChain(b) ==
    /\ "entry" \in DOMAIN b /\ Len(b.entry) > 0
    /\ "changes" \in DOMAIN b.entry[1] /\ Len(b.entry[1].changes) > 0
    /\ "value" \in DOMAIN b.entry[1].changes[1]
    /\ DOMAIN b.entry[1].changes[1].value # {}
    /\ "messages" \in DOMAIN b.entry[1].changes[1].value
    /\ Len(b.entry[1].changes[1].value.messages) > 0
    /\ DOMAIN b.entry[1].changes[1].value.messages[1] # {}

\* C9 (as amended): on a payload of the webhook's shape the validator
\* returns true exactly when "object" is present and non-empty and the chain
\* entry, changes, value, messages, first message is non-empty, false
\* otherwise; the payload is the same after the call.
C9_ValidExactly ==
    vresult # <<>> =>
        /\ vresult[1] = (("object" \in DOMAIN vbody /\ vbody.object # "")
                            /\ MessageChain(vbody))
        /\ vbodyAfter = vbody

\* C9 as stated: true exactly when the chain is non-empty
C9_Original ==
    vresult # <<>> =>
        /\ vresult[1] = MessageChain(vbody)
        /\ vbodyAfter = vbody

\* a message event without "object" is rejected
C9_Witness ==
    /\ vresult = <<FALSE>>
    /\ MessageChain(vbody)
    /\ "object" \notin DOMAIN vbody

\* C10: a call makes one POST and returns without raising: the response
\* when the status is below 400, an error with status 408 on a timeout,
\* an error with the upstream status on a 4xx or 5xx answer, an error with
\* status 500 on any other transport error.
C10_SendOutcomes ==
    /\ sposts <= 1
    /\ spc \in {"map", "returned"} => sposts = 1
    /\ spc = "returned" =>
          /\ ~sret.raised
          /\ (soutcome.kind = "response" /\ soutcome.status < 400) =>
                sret.kind = "response" /\ sret.status = soutcome.status
          /\ soutcome.kind = "Timeout" =>
                sret.kind = "error" /\ sret.status = 408
          /\ (soutcome.kind = "response" /\ soutcome.status >= 400) =>
                sret.kind = "error" /\ sret.status = soutcome.status
          /\ soutcome.kind = "ConnectionError" =>
                sret.kind = "error" /\ sret.status = 500

\* a timed-out POST returned as a 408 error after one attempt
C10_Witness ==
    /\ spc = "returned" /\ sposts = 1
    /\ soutcome.kind = "Timeout"
    /\ sret.kind = "error" /\ sret.status = 408

(***************************************************************************)
(* The session mapping under concurrent requests                           *)
(***************************************************************************)
Acting(h) == hpc[h] \in {"send", "update"}

\* two handlers hold the same state-changing branch for the same sender:
\* both read user_state before either updated it
DoubleAct ==
    \E h1 \in Handlers, h2 \in Handlers :
        /\ h1 # h2
        /\ Acting(h1) /\ Acting(h2)
        /\ Head(hreq[h1]).from = Head(hreq[h2]).from
        /\ hbranch[h1] = hbranch[h2]
        /\ hbranch[h1] \in {"ask_name", "greet_name"}

\* a handler has sent the name greeting and the key it is about to pop is
\* gone: user_state.pop(wa_id) raises KeyError
PopFails(h) ==
    /\ hpc[h] = "update"
    /\ hbranch[h] = "greet_name"
    /\ hsent[h].outcome # None
    /\ Head(hreq[h]).from \notin DOMAIN user_state

\* C11: the read of user_state and its update are separated by the send, so
\* requests that overlap can both act on the same pre-state (two name
\* prompts from none, or two name greetings from awaiting_name with the
\* second pop failing); when requests are handled one after the other no
\* two handlers ever hold the same branch for a sender and no pop fails.
C11_SerialNoDoubleAct ==
    ~threaded => (~DoubleAct /\ \A h \in Handlers : ~PopFails(h))

\* overlapping requests: both handlers sent the name greeting for the same
\* sender, one popped the key, the other is about to pop it again
C11_Witness ==
    /\ threaded
    /\ \E h1 \in Handlers, h2 \in Handlers :
          /\ h1 # h2
          /\ PopFails(h1)
          /\ hpc[h2] = "idle" /\ hresp[h2] = OkResp

\* overlapping requests: both handlers sent the name prompt from none
DoublePrompt ==
    /\ threaded
    /\ \A h \in Handlers :
          /\ hpc[h] = "update" /\ hbranch[h] = "ask_name"
          /\ Head(hreq[h]).from = "w1"
    /\ "w1" \notin DOMAIN user_state

(***************************************************************************)
(* The outbound sends of one inbound message                               *)
(***************************************************************************)
IsSend(c) == c.fn = "send_message"

Sends == SelectSeq(calls, IsSend)

ReplyTexts == {GreetingText, UnsupportedText, FailureText}

\* the second send is one of the four final messages
IsFinalSend(c, w) ==
    /\ IsSend(c) /\ c.data.to = w
    /\ \/ IsDocumentSend(c)
       \/ c.data.type = "text" /\ c.data.text \in ReplyTexts

\* C12: for a message whose sender id and display name can be extracted,
\* the sends are the acknowledgment first and then exactly one more send
\* attempt: the greeting, a document, the unsupported-type reply or the
\* failure notice; a document and a failure notice are never both sent, and
\* a document is sent only right after a media upload that succeeded.
C12_AckThenOneSend ==
    WellFormed =>
        LET w == SenderOf(payload)
        IN  /\ Len(Sends) <= 2
            /\ Len(Sends) >= 1 =>
                  /\ IsSendOf(Sends[1], w, AckText)
                  /\ calls[1] = Sends[1]
            /\ Len(Sends) = 2 =>
                  /\ IsFinalSend(Sends[2], w)
                  /\ calls[Len(calls)] = Sends[2]
                  /\ pc = "done"
            /\ pc = "done" => Len(Sends) = 2
            /\ ~(/\ \E i \in 1..Len(calls) : IsDocumentSend(calls[i])
                 /\ \E i \in 1..Len(calls) : IsSendOf(calls[i], w, FailureText))
            /\ \A i \in 1..Len(calls) :
                  IsDocumentSend(calls[i]) =>
                      /\ i > 1
                      /\ calls[i - 1].fn = "upload_media_to_whatsapp"
                      /\ ~calls[i - 1].raised
                      /\ calls[i].data.document = loc.media_id
                      /\ loc.media_id # NoMedia

\* a voice note answered with the acknowledgment and then the document
C12_Witness ==
    /\ WellFormed /\ pc = "done"
    /\ loc.message_type = "audio"
    /\ Len(Sends) = 2
    /\ IsSendOf(Sends[1], SenderOf(payload), AckText)
    /\ IsDocumentSend(Sends[2])
    /\ \E i \in 1..Len(calls) :
          calls[i].fn = "upload_media_to_whatsapp" /\ ~calls[i].raised

\* a run that failed after the acknowledgment: the failure notice is the
\* only other send
AckThenFailure ==
    /\ WellFormed /\ pc = "done"
    /\ Len(Sends) = 2
    /\ IsSendOf(Sends[2], SenderOf(payload), FailureText)
    /\ \E i \in 1..Len(calls) :
          calls[i].fn = "upload_media_to_whatsapp" /\ calls[i].raised

====
